---- MODULE Spec2Model ----
(***************************************************************************)
(* DebtMate: the ledger of lending records kept by PersonalMoneyTracker    *)
(* (src/app/page.tsx) and the payment form (src/unnamed/part_000, imported *)
(* by page.tsx as PartialPaymentForm).                                     *)
(*                                                                         *)
(* The state is the React state of PersonalMoneyTracker.  Every event      *)
(* handler is one action; a handler that sets state leaves pc "dirty"      *)
(* ("dirty": setRecords alone, "dirtyBoth": setRecords and a dialog's      *)
(* state, "dirtyUI": no setRecords), and React renders (action Render)     *)
(* and runs the save effect before the next event is handled.              *)
(* Text is a sequence of one-character strings, so that trim(),            *)
(* toLowerCase() and replace(/\s+/g, " ") are computed, not assumed.       *)
(* Dates and Date.now() are the integer clock `now`; a handler reads it     *)
(* once.  The dialogs are modal: while one is open only its own controls   *)
(* and those of a dialog opened from it can be used.  Opening the Add      *)
(* dialog, filling it in and submitting it is one action.  Fields seq and  *)
(* marked of a record, and the variables last and prev, are history: no    *)
(* handler reads them.                                                     *)
(*                                                                         *)
(* Spec is a session of a page started on no data, every write to the      *)
(* slot succeeding.  SpecStart starts at the mount of the page, on any     *)
(* content of the slot, and adds page reloads.  SpecQuota adds writes that *)
(* fail.  SpecBatched adds a second click handled before the render.       *)
(* SpecAgg renders the aggregates of any small collection.                 *)
(***************************************************************************)
EXTENDS Integers, Sequences, FiniteSets, TLC

\* ------------------------------------------------------------------ bounds
MaxRecords == 2        \* records held at once
MaxClock == 1          \* the clock runs 0..MaxClock
MaxAmount == 3         \* largest amount typed into a form
MaxHistory == 2        \* payments recorded on one record
MaxFailedWrites == 1   \* writes to the slot that fail

\* ------------------------------------------------------------------ inputs
\* What the user can type into the forms.
NameInputs == { <<>>, <<" ">>, <<" ", "A", " ">> }
AmountInputs == { -1, 0, MaxAmount }    \* "" and 0 are both falsy: 0 stands for both
PaymentInputs == (-1)..(MaxAmount + 1)
ReasonInputs == { "", "lunch" }
NotesInputs == { "" }
LentDates == { 0 }

VARIABLES
    records,                  \* useState<LendingRecord[]>
    selectedBorrower,         \* <<>> for null, else <<name>>
    isPartialPaymentOpen,
    selectedRecordForPayment, \* <<>> for null, else <<record>>
    now,                      \* the clock read by Date.now() and new Date()
    pc,                       \* "idle"; "dirty", "dirtyBoth", "dirtyUI", "batched":
                              \* state was set, render pending; "mounted", "loaded":
                              \* first render done, effects pending; "crashed"
    storage,                  \* the localStorage slot STORAGE_KEY
    failedWrites,             \* how many times localStorage.setItem has thrown
    rendered,                 \* the records the handlers of the last render close over
    view,                     \* what the last read of the aggregates returned
    last,                     \* history: the last handler run, its inputs and outcome
    prev                      \* history: records as the last handler found them

vars == <<records, selectedBorrower, isPartialPaymentOpen, selectedRecordForPayment,
          now, pc, storage, failedWrites, rendered, view, last, prev>>

\* ------------------------------------------------------------------ text
RECURSIVE TrimLeft(_)
TrimLeft(s) ==
    IF s = <<>> THEN s
    ELSE IF Head(s) = " " THEN TrimLeft(Tail(s)) ELSE s

RECURSIVE TrimRight(_)
TrimRight(s) ==
    IF s = <<>> THEN s
    ELSE IF s[Len(s)] = " " THEN TrimRight(SubSeq(s, 1, Len(s) - 1)) ELSE s

\* String.prototype.trim
Trim(s) == TrimRight(TrimLeft(s))

LowerChar(c) ==
    CASE c = "A" -> "a"
      [] c = "B" -> "b"
      [] OTHER -> c

\* String.prototype.toLowerCase
ToLowerCase(s) == [i \in DOMAIN s |-> LowerChar(s[i])]

\* replace(/\s+/g, " ")
RECURSIVE CollapseSpaces(_)
CollapseSpaces(s) ==
    IF s = <<>> THEN s
    ELSE IF Len(s) >= 2 /\ s[1] = " " /\ s[2] = " " THEN CollapseSpaces(Tail(s))
    ELSE <<Head(s)>> \o CollapseSpaces(Tail(s))

normalizeName(name) == CollapseSpaces(ToLowerCase(Trim(name)))

\* ------------------------------------------------------------------ helpers
RECURSIVE SumAmounts(_)
SumAmounts(h) == IF h = <<>> THEN 0 ELSE Head(h).amount + SumAmounts(Tail(h))

MaxOf(S) == CHOOSE x \in S : \A y \in S : y <= x

\* Object identity of a record, as a history field: one more than the largest
\* identity in the collection.  Updates ({...record, ...}) keep it.
NewSeq(recs) == IF recs = <<>> THEN 1 ELSE 1 + MaxOf({recs[i].seq : i \in DOMAIN recs})

\* Array.prototype.sort((a, b) => b.date - a.date): stable, newest first.
RECURSIVE InsertByDateDesc(_, _)
InsertByDateDesc(e, s) ==
    IF s = <<>> THEN <<e>>
    ELSE IF Head(s).date >= e.date THEN <<Head(s)>> \o InsertByDateDesc(e, Tail(s))
    ELSE <<e>> \o s

RECURSIVE SortInto(_, _)
SortInto(h, acc) ==
    IF h = <<>> THEN acc ELSE SortInto(Tail(h), InsertByDateDesc(Head(h), acc))

SortByDateDesc(h) == SortInto(h, <<>>)

\* ------------------------------------------------------------------ views
PaymentOpen == selectedRecordForPayment # <<>> /\ isPartialPaymentOpen

\* {selectedBorrower && ...}: null and the empty string are both falsy
ContactOpen == selectedBorrower # <<>> /\ selectedBorrower[1] # <<>>

NoModalOpen == ~ContactOpen /\ ~PaymentOpen

InContact(r) ==
    ContactOpen /\ normalizeName(r.borrowerName) = normalizeName(selectedBorrower[1])

\* The names of the contact cards: the trimmed name of the first record of
\* each normalized-name class.
SummaryNames(recs) ==
    { Trim(recs[i].borrowerName) :
        i \in { k \in DOMAIN recs :
                  \A j \in 1..(k - 1) :
                     normalizeName(recs[j].borrowerName) # normalizeName(recs[k].borrowerName) } }

\* A record's buttons can be clicked: it is in the list behind no modal, or
\* in the contact dialog with no payment dialog above it.
Clickable(r) == ~PaymentOpen /\ (ContactOpen => InContact(r))

NoOp == [op |-> "none", result |-> "ok", target |-> 0, id |-> 0, amount |-> 0,
         name |-> <<>>, reason |-> "", at |-> 0]

\* ------------------------------------------------------------------ Add
\* AddRecordForm.handleSubmit's check
AddFormValid(formData) ==
    /\ formData.borrowerName # <<>>
    /\ formData.amount # 0
    /\ formData.reason # ""

NewRecord(recs, recordData, t) ==
    [ id |-> t,
      borrowerName |-> Trim(recordData.borrowerName),
      amount |-> recordData.amount,
      reason |-> recordData.reason,
      lentDate |-> recordData.lentDate,
      status |-> "pending",
      notes |-> recordData.notes,
      paidAmount |-> 0,
      paymentHistory |-> <<>>,
      createdAt |-> t,
      seq |-> NewSeq(recs),       \* history only
      marked |-> FALSE ]          \* history only: markAsPaid has been applied

\* Mutant: the new record is put at the end of the collection.
M_handleAddRecord_Append(recs, recordData, t) == Append(recs, NewRecord(recs, recordData, t))

\* setRecords([newRecord, ...records])
handleAddRecord(recs, recordData, t) == <<NewRecord(recs, recordData, t)>> \o recs

AddRecord ==
    /\ pc = "idle"
    /\ NoModalOpen
    /\ Len(records) < MaxRecords
    /\ \E name \in NameInputs, amount \in AmountInputs, reason \in ReasonInputs,
          lentDate \in LentDates, notes \in NotesInputs :
         LET formData == [borrowerName |-> name, amount |-> amount, reason |-> reason,
                          lentDate |-> lentDate, notes |-> notes]
             op == [NoOp EXCEPT !.op = "Add", !.amount = amount, !.name = name,
                                !.reason = reason, !.id = now, !.at = now]
         IN  IF AddFormValid(formData)
             THEN /\ records' = handleAddRecord(records, formData, now)
                  /\ pc' = "dirtyBoth"
                  /\ last' = [op EXCEPT !.target = NewSeq(records)]
             ELSE /\ UNCHANGED <<records, pc>>
                  /\ last' = [op EXCEPT !.result = "ValidationError"]
    /\ prev' = records
    /\ UNCHANGED <<selectedBorrower, isPartialPaymentOpen, selectedRecordForPayment, now,
                   storage, failedWrites, rendered, view>>

\* ------------------------------------------------------------------ Mark paid
\* Mutant: marking paid also settles the balance.
M_markAsPaid_SettlesBalance(recs, recordId) ==
    [i \in DOMAIN recs |->
        IF recs[i].id = recordId
        THEN [recs[i] EXCEPT !.status = "paid", !.marked = TRUE, !.paidAmount = recs[i].amount]
        ELSE recs[i]]

markAsPaid(recs, recordId) ==
    [i \in DOMAIN recs |->
        IF recs[i].id = recordId
        THEN [recs[i] EXCEPT !.status = "paid", !.marked = TRUE]   \* marked: history only
        ELSE recs[i]]

\* The "Full" button of a pending record (list line 538, contact dialog line 928).
MarkFullyPaid ==
    /\ pc = "idle"
    /\ \E i \in DOMAIN records :
         /\ Clickable(records[i])
         /\ records[i].status = "pending"
         /\ records' = markAsPaid(records, records[i].id)
         /\ last' = [NoOp EXCEPT !.op = "MarkFullyPaid", !.target = records[i].seq,
                                 !.id = records[i].id, !.at = now]
    /\ pc' = "dirty"
    /\ prev' = records
    /\ UNCHANGED <<selectedBorrower, isPartialPaymentOpen, selectedRecordForPayment, now,
                   storage, failedWrites, rendered, view>>

\* ------------------------------------------------------------------ Delete
deleteRecord(recs, recordId) == SelectSeq(recs, LAMBDA r : r.id # recordId)

\* The trash button of any record (list line 549, contact dialog lines 937, 993).
Delete ==
    /\ pc = "idle"
    /\ \E i \in DOMAIN records :
         /\ Clickable(records[i])
         /\ records' = deleteRecord(records, records[i].id)
         /\ last' = [NoOp EXCEPT !.op = "Delete", !.target = records[i].seq,
                                 !.id = records[i].id, !.at = now]
    /\ pc' = "dirty"
    /\ prev' = records
    /\ UNCHANGED <<selectedBorrower, isPartialPaymentOpen, selectedRecordForPayment, now,
                   storage, failedWrites, rendered, view>>

\* ------------------------------------------------------------------ Payment
\* The "Add Payment" button of a pending record: the dialog gets the record
\* object itself.
OpenPayment ==
    /\ pc = "idle"
    /\ \E i \in DOMAIN records :
         /\ Clickable(records[i])
         /\ records[i].status = "pending"
         /\ selectedRecordForPayment' = <<records[i]>>
    /\ isPartialPaymentOpen' = TRUE
    /\ pc' = "dirtyUI"
    /\ last' = [NoOp EXCEPT !.op = "UI"]
    /\ prev' = <<>>
    /\ UNCHANGED <<records, selectedBorrower, now, storage, failedWrites, rendered, view>>

\* onOpenChange(false) of the payment dialog (Escape, click outside): the
\* selected record stays set.
DismissPayment ==
    /\ pc = "idle"
    /\ PaymentOpen
    /\ isPartialPaymentOpen' = FALSE
    /\ pc' = "dirtyUI"
    /\ last' = [NoOp EXCEPT !.op = "UI"]
    /\ prev' = <<>>
    /\ UNCHANGED <<records, selectedBorrower, selectedRecordForPayment, now,
                   storage, failedWrites, rendered, view>>

\* onCancel of the payment form
CancelPayment ==
    /\ pc = "idle"
    /\ PaymentOpen
    /\ isPartialPaymentOpen' = FALSE
    /\ selectedRecordForPayment' = <<>>
    /\ pc' = "dirtyUI"
    /\ last' = [NoOp EXCEPT !.op = "UI"]
    /\ prev' = <<>>
    /\ UNCHANGED <<records, selectedBorrower, now, storage, failedWrites, rendered, view>>

\* Mutant: the form without its check against the remaining balance.
M_PaymentFormValid_NoMax(record, amount) == ~(amount = 0 \/ amount <= 0)

\* Mutant: the form without its check that the amount is above zero.
M_PaymentFormValid_AcceptsNegative(record, amount) ==
    /\ amount # 0
    /\ ~(amount > record.amount - record.paidAmount)

\* PartialPaymentForm.handleSubmit's checks against its record prop
PaymentFormValid(record, amount) ==
    /\ ~(amount = 0 \/ amount <= 0)
    /\ ~(amount > record.amount - record.paidAmount)

\* Mutant: paidAmount set to the payment instead of increased by it.
M_updatedRecord_Overwrite(record, paymentAmount, paymentNotes, t) ==
    [record EXCEPT
        !.paidAmount = paymentAmount,
        !.paymentHistory = Append(record.paymentHistory,
                              [id |-> t, amount |-> paymentAmount, date |-> t,
                               notes |-> paymentNotes]),
        !.status = IF paymentAmount >= record.amount THEN "paid" ELSE "pending"]

\* Mutant: status turns paid only when more than the amount has been paid.
M_updatedRecord_StrictStatus(record, paymentAmount, paymentNotes, t) ==
    [record EXCEPT
        !.paidAmount = record.paidAmount + paymentAmount,
        !.paymentHistory = Append(record.paymentHistory,
                              [id |-> t, amount |-> paymentAmount, date |-> t,
                               notes |-> paymentNotes]),
        !.status = IF record.paidAmount + paymentAmount > record.amount
                   THEN "paid" ELSE "pending"]

\* The record handlePartialPayment writes in place of a matching one.
updatedRecord(record, paymentAmount, paymentNotes, t) ==
    LET newPaidAmount == record.paidAmount + paymentAmount
        newPaymentEntry == [id |-> t, amount |-> paymentAmount, date |-> t,
                            notes |-> paymentNotes]
    IN  [record EXCEPT
            !.paidAmount = newPaidAmount,
            !.paymentHistory = Append(record.paymentHistory, newPaymentEntry),
            !.status = IF newPaidAmount >= record.amount THEN "paid" ELSE "pending"]

handlePartialPayment(recs, recordId, paymentAmount, paymentNotes, t) ==
    [i \in DOMAIN recs |->
        IF recs[i].id = recordId
        THEN updatedRecord(recs[i], paymentAmount, paymentNotes, t)
        ELSE recs[i]]

\* "Record Payment": the form's checks, then
\* handlePartialPayment(selectedRecordForPayment.id, amount, notes).
ApplyPayment ==
    /\ pc = "idle"
    /\ PaymentOpen
    /\ \E amount \in PaymentInputs, notes \in NotesInputs :
         LET record == selectedRecordForPayment[1]
             op == [NoOp EXCEPT !.op = "ApplyPayment", !.target = record.seq,
                                !.id = record.id, !.amount = amount, !.at = now]
         IN  IF PaymentFormValid(record, amount)
             THEN /\ \A i \in DOMAIN records :
                       records[i].id = record.id => Len(records[i].paymentHistory) < MaxHistory
                  /\ records' = handlePartialPayment(records, record.id, amount,
                                     IF notes = "" THEN "undefined" ELSE notes, now)
                  /\ isPartialPaymentOpen' = FALSE
                  /\ selectedRecordForPayment' = <<>>
                  /\ pc' = "dirtyBoth"
                  /\ last' = op
             ELSE /\ UNCHANGED <<records, isPartialPaymentOpen, selectedRecordForPayment, pc>>
                  /\ last' = [op EXCEPT !.result = "ValidationError"]
    /\ prev' = records
    /\ UNCHANGED <<selectedBorrower, now, storage, failedWrites, rendered, view>>

\* ------------------------------------------------------------------ Contacts
\* A contact card is clicked: setSelectedBorrower(borrower.name)
SelectBorrower ==
    /\ pc = "idle"
    /\ NoModalOpen
    /\ \E name \in SummaryNames(records) : selectedBorrower' = <<name>>
    /\ pc' = "dirtyUI"
    /\ last' = [NoOp EXCEPT !.op = "UI"]
    /\ prev' = <<>>
    /\ UNCHANGED <<records, isPartialPaymentOpen, selectedRecordForPayment, now,
                   storage, failedWrites, rendered, view>>

\* onOpenChange of the contact dialog: setSelectedBorrower(null)
CloseContact ==
    /\ pc = "idle"
    /\ ContactOpen
    /\ ~PaymentOpen
    /\ selectedBorrower' = <<>>
    /\ pc' = "dirtyUI"
    /\ last' = [NoOp EXCEPT !.op = "UI"]
    /\ prev' = <<>>
    /\ UNCHANGED <<records, isPartialPaymentOpen, selectedRecordForPayment, now,
                   storage, failedWrites, rendered, view>>

\* ------------------------------------------------------------------ aggregates
\* records.reduce((sum, record) => sum + record.amount, 0)
RECURSIVE totalLent(_)
totalLent(recs) ==
    IF recs = <<>> THEN 0
    ELSE totalLent(SubSeq(recs, 1, Len(recs) - 1)) + recs[Len(recs)].amount

RECURSIVE SumRemaining(_)
SumRemaining(recs) ==
    IF recs = <<>> THEN 0
    ELSE SumRemaining(SubSeq(recs, 1, Len(recs) - 1))
            + (recs[Len(recs)].amount - recs[Len(recs)].paidAmount)

totalPending(recs) == SumRemaining(SelectSeq(recs, LAMBDA r : r.status = "pending"))

\* Mutant: the returned total counts what was paid, not the full amount.
M_totalPaid_SumsPaidAmount(recs) ==
    totalLent(SelectSeq(recs, LAMBDA r : r.status = "paid"))
       - SumRemaining(SelectSeq(recs, LAMBDA r : r.status = "paid"))

totalPaid(recs) == totalLent(SelectSeq(recs, LAMBDA r : r.status = "paid"))

\* The Map of the reduce is a sequence of entries in insertion order.
MapHits(map, key) == { i \in DOMAIN map : map[i].key = key }

\* Mutant: lastBorrowed stays the lentDate of the first record of the class.
M_SummaryStep_FirstDate(map, record) ==
    LET normalizedName == normalizeName(record.borrowerName)
        displayName == Trim(record.borrowerName)
        hits == MapHits(map, normalizedName)
        existing == IF hits # {}
                    THEN map[CHOOSE i \in hits : TRUE].value
                    ELSE [name |-> displayName, totalOwed |-> 0, totalBorrowed |-> 0,
                          recordCount |-> 0, lastBorrowed |-> record.lentDate]
        updated == [existing EXCEPT
                      !.totalBorrowed = @ + record.amount,
                      !.recordCount = @ + 1,
                      !.totalOwed = IF record.status = "pending"
                                    THEN @ + (record.amount - record.paidAmount) ELSE @]
    IN  IF hits # {}
        THEN [i \in DOMAIN map |->
                 IF i \in hits THEN [key |-> normalizedName, value |-> updated] ELSE map[i]]
        ELSE Append(map, [key |-> normalizedName, value |-> updated])

\* Mutant: totalOwed also counts what is left of the paid records.
M_SummaryStep_OwedOfAll(map, record) ==
    LET normalizedName == normalizeName(record.borrowerName)
        displayName == Trim(record.borrowerName)
        hits == MapHits(map, normalizedName)
        existing == IF hits # {}
                    THEN map[CHOOSE i \in hits : TRUE].value
                    ELSE [name |-> displayName, totalOwed |-> 0, totalBorrowed |-> 0,
                          recordCount |-> 0, lastBorrowed |-> record.lentDate]
        updated == [existing EXCEPT
                      !.totalBorrowed = @ + record.amount,
                      !.recordCount = @ + 1,
                      !.totalOwed = @ + (record.amount - record.paidAmount),
                      !.lastBorrowed = IF record.lentDate > @ THEN record.lentDate ELSE @]
    IN  IF hits # {}
        THEN [i \in DOMAIN map |->
                 IF i \in hits THEN [key |-> normalizedName, value |-> updated] ELSE map[i]]
        ELSE Append(map, [key |-> normalizedName, value |-> updated])

\* One step of the reduce: map.get(normalizedName) || {...}, the updates,
\* map.set(normalizedName, existing).
SummaryStep(map, record) ==
    LET normalizedName == normalizeName(record.borrowerName)
        displayName == Trim(record.borrowerName)
        hits == MapHits(map, normalizedName)
        existing == IF hits # {}
                    THEN map[CHOOSE i \in hits : TRUE].value
                    ELSE [name |-> displayName, totalOwed |-> 0, totalBorrowed |-> 0,
                          recordCount |-> 0, lastBorrowed |-> record.lentDate]
        updated == [existing EXCEPT
                      !.totalBorrowed = @ + record.amount,
                      !.recordCount = @ + 1,
                      !.totalOwed = IF record.status = "pending"
                                    THEN @ + (record.amount - record.paidAmount) ELSE @,
                      !.lastBorrowed = IF record.lentDate > @ THEN record.lentDate ELSE @]
    IN  IF hits # {}
        THEN [i \in DOMAIN map |->
                 IF i \in hits THEN [key |-> normalizedName, value |-> updated] ELSE map[i]]
        ELSE Append(map, [key |-> normalizedName, value |-> updated])

RECURSIVE SummaryMap(_)
SummaryMap(recs) ==
    IF recs = <<>> THEN <<>>
    ELSE SummaryStep(SummaryMap(SubSeq(recs, 1, Len(recs) - 1)), recs[Len(recs)])

\* Mutant: a sort that puts an element before the elements equal to it.
RECURSIVE M_InsertByOwedDesc_TiesFirst(_, _)
M_InsertByOwedDesc_TiesFirst(e, s) ==
    IF s = <<>> THEN <<e>>
    ELSE IF Head(s).totalOwed > e.totalOwed
         THEN <<Head(s)>> \o M_InsertByOwedDesc_TiesFirst(e, Tail(s))
    ELSE <<e>> \o s

\* Array.prototype.sort((a, b) => b.totalOwed - a.totalOwed): stable, largest first.
RECURSIVE InsertByOwedDesc(_, _)
InsertByOwedDesc(e, s) ==
    IF s = <<>> THEN <<e>>
    ELSE IF Head(s).totalOwed >= e.totalOwed THEN <<Head(s)>> \o InsertByOwedDesc(e, Tail(s))
    ELSE <<e>> \o s

RECURSIVE SortOwedInto(_, _)
SortOwedInto(s, acc) ==
    IF s = <<>> THEN acc ELSE SortOwedInto(Tail(s), InsertByOwedDesc(Head(s), acc))

borrowerSummaries(recs) ==
    LET map == SummaryMap(recs)
    IN  SortOwedInto([i \in DOMAIN map |-> map[i].value], <<>>)

\* The records handed to ContactDetailView; nothing is shown while
\* selectedBorrower is falsy.
contactRecords(recs) ==
    IF ContactOpen THEN SelectSeq(recs, LAMBDA r : InContact(r)) ELSE <<>>

\* totalOwed of ContactDetailView
contactTotalOwed(recs) == totalPending(contactRecords(recs))

\* What one render of PersonalMoneyTracker computes from records.
Aggregates(recs) ==
    [ totalLent |-> totalLent(recs),
      totalPending |-> totalPending(recs),
      totalPaid |-> totalPaid(recs),
      borrowerSummaries |-> borrowerSummaries(recs) ]

\* ------------------------------------------------------------------ storage
\* Date.prototype.toISOString, applied by JSON.stringify: the text of the instant
toISOString(t) == [iso |-> t]

\* new Date(text)
NewDate(text) == text.iso

\* JSON.stringify leaves out a property whose value is undefined.
StringifyPayment(p) ==
    IF p.notes = "undefined"
    THEN [id |-> p.id, amount |-> p.amount, date |-> toISOString(p.date)]
    ELSE [id |-> p.id, amount |-> p.amount, date |-> toISOString(p.date), notes |-> p.notes]

StringifyRecord(r) ==
    [r EXCEPT !.lentDate = toISOString(r.lentDate),
              !.createdAt = toISOString(r.createdAt),
              !.paymentHistory = [i \in DOMAIN r.paymentHistory |->
                                     StringifyPayment(r.paymentHistory[i])]]

\* The slot is missing, or holds text: text JSON.parse rejects ("malformed"),
\* JSON that is no array ("object"), or a JSON array of items.
MissingSlot == [kind |-> "missing", items |-> <<>>]

\* JSON.stringify(records)
JSONstringify(recs) ==
    [kind |-> "array", items |-> [i \in DOMAIN recs |-> StringifyRecord(recs[i])]]

\* {...payment, date: new Date(payment.date)}
ParsePayment(p) ==
    [ id |-> p.id, amount |-> p.amount, date |-> NewDate(p.date),
      notes |-> IF "notes" \in DOMAIN p THEN p.notes ELSE "undefined" ]

\* Mutant: createdAt is always taken from lentDate.
M_ParseRecord_CreatedAtFromLentDate(item) ==
    [ lentDate |-> NewDate(item.lentDate),
      createdAt |-> NewDate(item.lentDate),
      paymentHistory |->
          IF "paymentHistory" \in DOMAIN item
          THEN [i \in DOMAIN item.paymentHistory |-> ParsePayment(item.paymentHistory[i])]
          ELSE <<>> ] @@ item

\* The object the load effect builds of one item of the parsed array.
ParseRecord(item) ==
    [ lentDate |-> NewDate(item.lentDate),
      createdAt |-> IF "createdAt" \in DOMAIN item
                    THEN NewDate(item.createdAt) ELSE NewDate(item.lentDate),
      paymentHistory |->
          IF "paymentHistory" \in DOMAIN item
          THEN [i \in DOMAIN item.paymentHistory |-> ParsePayment(item.paymentHistory[i])]
          ELSE <<>> ] @@ item

parsedRecords(items) == [i \in DOMAIN items |-> ParseRecord(items[i])]

\* Mutant: text that JSON.parse rejects is read as far as it goes.
M_LoadOutcome_ReadsMalformed(slot) ==
    CASE slot.kind = "missing" ->
            [set |-> FALSE, records |-> <<>>, result |-> "missing"]
      [] slot.kind = "object" ->
            [set |-> FALSE, records |-> <<>>, result |-> "PersistenceError"]
      [] OTHER ->
            [set |-> TRUE, records |-> parsedRecords(slot.items), result |-> "ok"]

\* The load effect: what it hands to setRecords, if anything.  getItem gives
\* null for a missing slot; JSON.parse throws on malformed text and .map is
\* no function of a value that is no array: both are caught and logged.
LoadOutcome(slot) ==
    CASE slot.kind = "missing" ->
            [set |-> FALSE, records |-> <<>>, result |-> "missing"]
      [] slot.kind \in {"malformed", "object"} ->
            [set |-> FALSE, records |-> <<>>, result |-> "PersistenceError"]
      [] OTHER ->
            [set |-> TRUE, records |-> parsedRecords(slot.items), result |-> "ok"]

\* Mutant: a failed write puts the collection back to what the slot holds.
M_saveEffect_Rollback(recs, slot, writeOk) ==
    [ storage |-> IF writeOk THEN JSONstringify(recs) ELSE slot,
      records |-> IF writeOk THEN recs ELSE LoadOutcome(slot).records ]

\* The save effect: setItem may throw (quota); the catch logs and goes on.
saveEffect(recs, slot, writeOk) ==
    [ storage |-> IF writeOk THEN JSONstringify(recs) ELSE slot,
      records |-> recs ]

\* ------------------------------------------------------------------ Render
\* record.paymentHistory.sort(...) inside a render sorts the array the record
\* holds.  The payment form sorts its record prop's history; the contact
\* dialog sorts the history of each pending record it shows.
SortedInRender(r) ==
    \/ PaymentOpen /\ r.seq = selectedRecordForPayment[1].seq
    \/ InContact(r) /\ r.status = "pending"

RenderRecords(recs) ==
    [i \in DOMAIN recs |->
        IF SortedInRender(recs[i])
        THEN [recs[i] EXCEPT !.paymentHistory = SortByDateDesc(@)]
        ELSE recs[i]]

\* setRecords was called since the last render: the [records] dependency of
\* the save effect has changed.
RecordsSet == pc \in {"dirty", "dirtyBoth", "batched"}

\* A render and the effects that follow it.
RenderStep(writeOk) ==
    /\ pc \in {"dirty", "dirtyBoth", "dirtyUI", "batched"}
    /\ LET shown == RenderRecords(records)
           effect == IF RecordsSet
                     THEN saveEffect(shown, storage, writeOk)
                     ELSE [storage |-> storage, records |-> shown]
       IN  /\ records' = effect.records
           /\ rendered' = effect.records
           /\ storage' = effect.storage
           /\ failedWrites' = IF RecordsSet /\ ~writeOk THEN failedWrites + 1
                               ELSE failedWrites
           /\ view' = Aggregates(shown)
    /\ selectedRecordForPayment' =
          IF PaymentOpen
          THEN <<[selectedRecordForPayment[1] EXCEPT !.paymentHistory = SortByDateDesc(@)]>>
          ELSE selectedRecordForPayment
    /\ pc' = "idle"
    /\ last' = [NoOp EXCEPT !.op = "Render",
                            !.result = IF writeOk THEN "ok" ELSE "PersistenceError"]
    /\ prev' = records
    /\ UNCHANGED <<selectedBorrower, isPartialPaymentOpen, now>>

Render == RenderStep(TRUE)

\* The render after which localStorage.setItem throws: the text no longer
\* fits the quota, which happens to a collection that has grown, by an Add
\* or a payment.
RenderWriteFails ==
    /\ pc = "dirtyBoth"
    /\ failedWrites < MaxFailedWrites
    /\ RenderStep(FALSE)

\* ------------------------------------------------------------------ mount
\* The page is loaded again: the state is the useState initial values, and
\* the first render has been done with them.
Reload ==
    /\ pc = "idle"
    /\ records' = <<>>
    /\ rendered' = <<>>
    /\ selectedBorrower' = <<>>
    /\ isPartialPaymentOpen' = FALSE
    /\ selectedRecordForPayment' = <<>>
    /\ view' = Aggregates(<<>>)
    /\ pc' = "mounted"
    /\ last' = [NoOp EXCEPT !.op = "Reload"]
    /\ prev' = records
    /\ UNCHANGED <<now, storage, failedWrites>>

\* The load effect of the mount.
LoadEffect ==
    /\ pc = "mounted"
    /\ LET outcome == LoadOutcome(storage)
       IN  /\ records' = IF outcome.set THEN outcome.records ELSE records
           /\ pc' = IF outcome.set THEN "loadedSet" ELSE "loaded"
           /\ last' = [NoOp EXCEPT !.op = "Load", !.result = outcome.result]
    /\ prev' = <<>>
    /\ UNCHANGED <<selectedBorrower, isPartialPaymentOpen, selectedRecordForPayment, now,
                   storage, failedWrites, rendered, view>>

\* The save effect of the mount: it runs after the load effect, with the
\* records of the first render.
MountSaveEffect ==
    /\ pc \in {"loaded", "loadedSet"}
    /\ storage' = saveEffect(rendered, storage, TRUE).storage
    /\ pc' = IF pc = "loadedSet" THEN "dirty" ELSE "idle"
    /\ last' = [NoOp EXCEPT !.op = "MountSave", !.result = last.result]
    /\ prev' = <<>>
    /\ UNCHANGED <<records, selectedBorrower, isPartialPaymentOpen,
                   selectedRecordForPayment, now, failedWrites, rendered, view>>

\* ------------------------------------------------------------------ date field
\* What the Lent Date field of the Add dialog can hold: "" when cleared.
DateInputValues == { "", "2024-01-15" }

\* new Date(e.target.value): an Invalid Date for the empty value
DateFromInput(value) == [valid |-> value # "", time |-> 0]

\* onChange of the Lent Date field, and the render of the form that follows:
\* formData.lentDate?.toISOString() throws a RangeError for an Invalid Date,
\* and nothing catches it.
EditLentDate ==
    /\ pc = "idle"
    /\ NoModalOpen
    /\ \E value \in DateInputValues :
         LET lentDate == DateFromInput(value)
         IN  IF lentDate.valid
             THEN UNCHANGED vars
             ELSE /\ pc' = "crashed"
                  /\ last' = [NoOp EXCEPT !.op = "EditLentDate", !.result = "RangeError"]
                  /\ prev' = <<>>
                  /\ UNCHANGED <<records, selectedBorrower, isPartialPaymentOpen,
                                 selectedRecordForPayment, now, storage, failedWrites, rendered, view>>

\* ------------------------------------------------------------------ batched
\* A second click handled before React has rendered: the buttons and their
\* handlers are those of the last render, whose records the handlers close
\* over.  (One such handler per render; only the buttons of the records, after
\* a handler that set nothing but records.)
BatchedMarkFullyPaid ==
    /\ pc = "dirty"
    /\ \E i \in DOMAIN rendered :
         /\ Clickable(rendered[i])
         /\ rendered[i].status = "pending"
         /\ records' = markAsPaid(rendered, rendered[i].id)
         /\ last' = [NoOp EXCEPT !.op = "MarkFullyPaid", !.target = rendered[i].seq,
                                 !.id = rendered[i].id, !.at = now]
    /\ pc' = "batched"
    /\ prev' = rendered
    /\ UNCHANGED <<selectedBorrower, isPartialPaymentOpen, selectedRecordForPayment, now,
                   storage, failedWrites, rendered, view>>

BatchedDelete ==
    /\ pc = "dirty"
    /\ \E i \in DOMAIN rendered :
         /\ Clickable(rendered[i])
         /\ records' = deleteRecord(rendered, rendered[i].id)
         /\ last' = [NoOp EXCEPT !.op = "Delete", !.target = rendered[i].seq,
                                 !.id = rendered[i].id, !.at = now]
    /\ pc' = "batched"
    /\ prev' = rendered
    /\ UNCHANGED <<selectedBorrower, isPartialPaymentOpen, selectedRecordForPayment, now,
                   storage, failedWrites, rendered, view>>

\* ------------------------------------------------------------------ clock
Tick ==
    /\ pc = "idle"
    /\ now < MaxClock
    /\ now' = now + 1
    /\ UNCHANGED <<records, selectedBorrower, isPartialPaymentOpen,
                   selectedRecordForPayment, pc, storage, failedWrites, rendered, view, last, prev>>

\* ------------------------------------------------------------------ claims
HasSeq(recs, q) == \E i \in DOMAIN recs : recs[i].seq = q
BySeq(recs, q) == recs[CHOOSE i \in DOMAIN recs : recs[i].seq = q]
Remaining(r) == r.amount - r.paidAmount

\* The record the last handler was aimed at, as the handler found it, and as
\* the handler left it.
PrevTarget == BySeq(prev, last.target)
Target == BySeq(records, last.target)

\* C1: in every reachable state every record's paidAmount is the sum of the
\* amounts of the entries of its paymentHistory.
C1_PaidAmountIsHistorySum ==
    \A i \in DOMAIN records :
        records[i].paidAmount = SumAmounts(records[i].paymentHistory)

\* C1 witness: a record with several payments that was then marked fully paid
\* while part of it is still owed.
C1_Witness ==
    \E i \in DOMAIN records :
        /\ Len(records[i].paymentHistory) >= 2
        /\ records[i].marked
        /\ records[i].paidAmount < records[i].amount

\* C2 (as claimed): a record never marked fully paid is paid exactly when
\* paidAmount >= amount, and a marked record is paid.
C2_StatusIffPaidUp ==
    \A i \in DOMAIN records :
        /\ ~records[i].marked =>
              (records[i].status = "paid" <=> records[i].paidAmount >= records[i].amount)
        /\ records[i].marked => records[i].status = "paid"

\* C3: a payment that is <= 0 or exceeds the target's remaining balance in the
\* store is rejected with a ValidationError and leaves the collection as it was.
C3_RejectedPaymentChangesNothing ==
    (/\ last.op = "ApplyPayment"
     /\ \/ last.amount <= 0
        \/ last.amount > Remaining(PrevTarget))
    => /\ last.result = "ValidationError"
       /\ records = prev
       /\ Target.paidAmount = PrevTarget.paidAmount
       /\ Target.paymentHistory = PrevTarget.paymentHistory
       /\ Target.status = PrevTarget.status

\* C3 witness: a payment one unit over the remaining balance of a partly paid
\* record has been rejected.
C3_Witness ==
    /\ last.op = "ApplyPayment"
    /\ last.result = "ValidationError"
    /\ PrevTarget.paidAmount > 0
    /\ last.amount = Remaining(PrevTarget) + 1

C5_MarkFullyPaidFrame ==
    last.op = "MarkFullyPaid"
    => /\ Len(records) = Len(prev)
       /\ \E i \in DOMAIN prev : prev[i].id = last.id
       /\ \A i \in DOMAIN prev :
             prev[i].id = last.id =>
                /\ records[i].status = "paid"
                /\ records[i].paidAmount = prev[i].paidAmount
                /\ records[i].paymentHistory = prev[i].paymentHistory
                /\ records[i].amount = prev[i].amount
                /\ records[i].borrowerName = prev[i].borrowerName
                /\ records[i].reason = prev[i].reason
                /\ records[i].lentDate = prev[i].lentDate
                /\ records[i].createdAt = prev[i].createdAt

\* C5 witness: a partly paid record has been marked fully paid.
C5_Witness ==
    /\ last.op = "MarkFullyPaid"
    /\ PrevTarget.paidAmount > 0
    /\ PrevTarget.paidAmount < PrevTarget.amount
    /\ Target.status = "paid"

\* C6 (as claimed): an Add whose name is empty after trimming, whose amount is
\* zero or whose reason is empty is rejected and the collection is unchanged.
C6_InvalidAddRejected ==
    (/\ last.op = "Add"
     /\ \/ Trim(last.name) = <<>>
        \/ last.amount = 0
        \/ last.reason = "")
    => /\ last.result = "ValidationError"
       /\ records = prev

\* C7 (as claimed): every record has amount > 0 and paidAmount >= 0.
C7_AmountsPositive ==
    \A i \in DOMAIN records :
        records[i].amount > 0 /\ records[i].paidAmount >= 0

\* C8: an accepted Add puts exactly one new record, pending, with paidAmount 0,
\* an empty paymentHistory and the trimmed name, at the front of the
\* collection, the earlier records following in their order; and in every
\* state the collection lists the records most recently added first.
C8_AddPrepends ==
    /\ (last.op = "Add" /\ last.result = "ok")
       => /\ Len(records) = Len(prev) + 1
          /\ records[1].status = "pending"
          /\ records[1].paidAmount = 0
          /\ records[1].paymentHistory = <<>>
          /\ records[1].borrowerName = Trim(last.name)
          /\ records[1].amount = last.amount
          /\ records[1].seq = last.target
          /\ ~HasSeq(prev, last.target)
          /\ Tail(records) = prev
    /\ \A i, j \in DOMAIN records : i < j => records[i].seq > records[j].seq

\* C8 witness: a record whose typed name had surrounding blanks has been added
\* in front of an earlier record.
C8_Witness ==
    /\ last.op = "Add"
    /\ last.result = "ok"
    /\ Len(prev) >= 1
    /\ last.name # Trim(last.name)
    /\ Trim(last.name) # <<>>

\* C9 (as claimed): no two records of the collection share an id.
C9_IdsUnique ==
    \A i, j \in DOMAIN records : i # j => records[i].id # records[j].id

\* C10 (as claimed): Delete removes exactly the record it was aimed at: one
\* record fewer, none left with that id, every other record present,
\* unmodified and in the same relative order.
C10_DeleteRemovesExactlyOne ==
    last.op = "Delete"
    => /\ Len(records) = Len(prev) - 1
       /\ \A i \in DOMAIN records : records[i].id # last.id
       /\ records = SelectSeq(prev, LAMBDA r : r.seq # last.target)

\* A step in which a handler has called setRecords.
MutationStep == pc' \in {"dirty", "dirtyBoth", "batched"} /\ pc' # pc

\* C11 (as claimed): a MarkFullyPaid, Delete or ApplyPayment whose id matches
\* no record of the collection fails with a NotFoundError and leaves the
\* collection as it was.
C11_UnknownIdFails ==
    [][ (/\ MutationStep
         /\ last'.op \in {"MarkFullyPaid", "Delete", "ApplyPayment"}
         /\ \A i \in DOMAIN records : records[i].id # last'.id)
        => (last'.result = "NotFoundError" /\ records' = records) ]_vars

\* The sum of f over the index set S.
RECURSIVE SumOf(_, _)
SumOf(S, f) ==
    IF S = {} THEN 0
    ELSE LET x == CHOOSE y \in S : TRUE IN f[x] + SumOf(S \ {x}, f)

Pending(recs) == { i \in DOMAIN recs : recs[i].status = "pending" }
Paid(recs) == { i \in DOMAIN recs : recs[i].status = "paid" }

\* C12: the totals of a render are: totalLent the sum of amount over all
\* records, totalPending the sum of amount - paidAmount over the pending
\* records, totalPaid the sum of the full amount over the paid records.
C12_GlobalTotals ==
    pc = "idle"
    => /\ view.totalLent = SumOf(DOMAIN records, [i \in DOMAIN records |-> records[i].amount])
       /\ view.totalPending = SumOf(Pending(records),
                                    [i \in DOMAIN records |-> Remaining(records[i])])
       /\ view.totalPaid = SumOf(Paid(records),
                                 [i \in DOMAIN records |-> records[i].amount])

\* C12 witness: totals rendered of a partly paid pending record and a record
\* marked paid with part of it unpaid.
C12_Witness ==
    /\ pc = "idle"
    /\ last.op = "Render"
    /\ \E i \in Pending(records) : records[i].paidAmount > 0
    /\ \E i \in Paid(records) : records[i].paidAmount < records[i].amount

\* The records of the class of a name.
ClassOf(recs, name) ==
    { i \in DOMAIN recs : normalizeName(recs[i].borrowerName) = normalizeName(name) }

Min(S) == CHOOSE x \in S : \A y \in S : x <= y

\* C13: the summaries of a render hold exactly one summary per class of
\* normalized names, and for each class recordCount is the number of its
\* records, totalBorrowed the sum of their amounts, totalOwed the sum of
\* amount - paidAmount over its pending records, lastBorrowed the largest
\* lentDate, and name the trimmed borrowerName of its first record.
C13_BorrowerSummaries ==
    last.op = "Render"
    => LET sums == view.borrowerSummaries
       IN  /\ \A i \in DOMAIN records :
                 Cardinality({ k \in DOMAIN sums :
                                 normalizeName(sums[k].name)
                                    = normalizeName(records[i].borrowerName) }) = 1
           /\ \A k \in DOMAIN sums :
                 LET class == ClassOf(records, sums[k].name)
                 IN  /\ class # {}
                     /\ sums[k].recordCount = Cardinality(class)
                     /\ sums[k].totalBorrowed
                           = SumOf(class, [i \in DOMAIN records |-> records[i].amount])
                     /\ sums[k].totalOwed
                           = SumOf(class \cap Pending(records),
                                   [i \in DOMAIN records |-> Remaining(records[i])])
                     /\ sums[k].lastBorrowed = MaxOf({ records[i].lentDate : i \in class })
                     /\ sums[k].name = Trim(records[Min(class)].borrowerName)

\* C13 witness: summaries of three records in two classes, one class of two
\* names that differ in case and inner blanks, the later record of it lent
\* earlier than the first.
C13_Witness ==
    /\ last.op = "Render"
    /\ Len(records) = 3
    /\ Len(view.borrowerSummaries) = 2
    /\ \E i, j \in DOMAIN records :
          /\ i < j
          /\ records[i].borrowerName # records[j].borrowerName
          /\ normalizeName(records[i].borrowerName) = normalizeName(records[j].borrowerName)
          /\ records[i].lentDate < records[j].lentDate
          /\ records[j].status = "pending"

\* C14 (as claimed): while no handler's update is pending, the slot holds the
\* snapshot of the collection in memory (every write of this specification
\* succeeds).
C14_SnapshotMatchesMemory ==
    pc = "idle" => storage = JSONstringify(records)

\* The fields of a record that no render changes.
Content(r) ==
    [ id |-> r.id, borrowerName |-> r.borrowerName, amount |-> r.amount,
      reason |-> r.reason, lentDate |-> r.lentDate, status |-> r.status,
      paidAmount |-> r.paidAmount, createdAt |-> r.createdAt,
      payments |-> { r.paymentHistory[i] : i \in DOMAIN r.paymentHistory } ]

\* C15: after a render whose write to the slot failed, the collection in
\* memory is the one the handler left (nothing is rolled back), the slot is
\* as it was, the page goes on (no error propagates), and what is shown is
\* computed from the collection in memory.
C15_FailedWriteKeepsMemory ==
    (last.op = "Render" /\ last.result = "PersistenceError")
    => /\ pc = "idle"
       /\ Len(records) = Len(prev)
       /\ \A i \in DOMAIN records : Content(records[i]) = Content(prev[i])
       /\ rendered = records
       /\ view = Aggregates(records)

\* C15 witness: the write after an accepted payment failed, and the slot holds
\* an older snapshot.
C15_Witness ==
    /\ last.op = "Render"
    /\ last.result = "PersistenceError"
    /\ storage # JSONstringify(records)
    /\ \E i \in DOMAIN records : records[i].paidAmount > 0

C17_LoadRoundTrip ==
    /\ parsedRecords(JSONstringify(records).items) = records
    /\ (last.op = "Load" /\ last.result = "ok")
       => /\ Len(records) = Len(storage.items)
          /\ \A i \in DOMAIN records :
                LET item == storage.items[i]
                IN  /\ records[i].id = item.id
                    /\ "createdAt" \notin DOMAIN item
                          => records[i].createdAt = records[i].lentDate
                    /\ "paymentHistory" \notin DOMAIN item
                          => records[i].paymentHistory = <<>>
                    /\ ("createdAt" \in DOMAIN item /\ "paymentHistory" \in DOMAIN item)
                          => StringifyRecord(records[i]) = item

\* C17 witness: a snapshot of two records has been loaded, one of them with a
\* payment and with createdAt later than lentDate.
C17_Witness ==
    /\ last.op = "Load"
    /\ last.result = "ok"
    /\ Len(records) = 2
    /\ \E i \in DOMAIN records :
          /\ records[i].paymentHistory # <<>>
          /\ records[i].createdAt # records[i].lentDate

\* C18: no step lowers the paidAmount of a record that stays in the collection.
C18_PaidAmountMonotonic ==
    [][ \A i \in DOMAIN records : \A j \in DOMAIN records' :
          records[i].seq = records'[j].seq
             => records'[j].paidAmount >= records[i].paidAmount ]_vars

\* C18 witness: a record that received two payments is still in the
\* collection after another record was deleted.
C18_Witness ==
    /\ last.op = "Delete"
    /\ \E i \in DOMAIN records :
          /\ Len(records[i].paymentHistory) = 2
          /\ records[i].paidAmount = SumAmounts(records[i].paymentHistory)
          /\ records[i].seq # last.target

\* C19 (as claimed): no input to the forms ends in an uncaught exception.
C19_NoUncaughtFailure == pc # "crashed"

\* C20 (as claimed): a handler's update is applied to the collection as it is
\* when the handler runs: every record the handler is not aimed at is in the
\* result as it was, and the result holds no other record.
C20_MutationsApplyToCurrent ==
    [][ (MutationStep /\ last'.result = "ok")
        => /\ \A i \in DOMAIN records :
                 records[i].id # last'.id
                    => \E j \in DOMAIN records' : records'[j] = records[i]
           /\ \A j \in DOMAIN records' :
                 records'[j].id # last'.id
                    => \E i \in DOMAIN records : records[i] = records'[j] ]_vars


\* C21 (as claimed): the paymentHistory of every record is in insertion
\* order: no entry stands before an entry recorded earlier.
C21_HistoryInInsertionOrder ==
    \A r \in DOMAIN records :
        \A i, j \in DOMAIN records[r].paymentHistory :
            i < j => records[r].paymentHistory[i].date <= records[r].paymentHistory[j].date

\* The first record of the class of a summary.
FirstOf(recs, name) == Min(ClassOf(recs, name))

\* C22: the summaries of a render are in descending order of totalOwed, and
\* of two summaries with the same totalOwed the one whose class is met first
\* in the collection comes first.
C22_SummariesOrdered ==
    last.op = "Render"
    => LET sums == view.borrowerSummaries
       IN  \A k, l \in DOMAIN sums :
              k < l => /\ sums[k].totalOwed >= sums[l].totalOwed
                       /\ sums[k].totalOwed = sums[l].totalOwed
                             => FirstOf(records, sums[k].name) < FirstOf(records, sums[l].name)

\* C22 witness: three summaries, the first with more owed than the other two,
\* which owe the same, not nothing, and whose classes come first in the
\* collection.
C22_Witness ==
    /\ last.op = "Render"
    /\ Len(view.borrowerSummaries) = 3
    /\ view.borrowerSummaries[1].totalOwed > view.borrowerSummaries[2].totalOwed
    /\ view.borrowerSummaries[2].totalOwed = view.borrowerSummaries[3].totalOwed
    /\ view.borrowerSummaries[3].totalOwed > 0
    /\ FirstOf(records, view.borrowerSummaries[1].name) = 3

\* C23 (as claimed): with a contact chosen by the name of its summary, the
\* records of the contact view are as many as the summary's recordCount and
\* their pending balance is the summary's totalOwed.
C23_ContactHistoryMatchesSummary ==
    (pc = "idle" /\ selectedBorrower # <<>>)
    => \A k \in DOMAIN view.borrowerSummaries :
          view.borrowerSummaries[k].name = selectedBorrower[1]
             => /\ Len(contactRecords(records)) = view.borrowerSummaries[k].recordCount
                /\ contactTotalOwed(records) = view.borrowerSummaries[k].totalOwed

\* C24 (as claimed): MarkFullyPaid and an accepted ApplyPayment leave the
\* collection with the same records in the same order, every record but the
\* one aimed at as it was.
C24_OneRecordModified ==
    (\/ last.op = "MarkFullyPaid"
     \/ last.op = "ApplyPayment" /\ last.result = "ok")
    => /\ Len(records) = Len(prev)
       /\ \A i \in DOMAIN prev :
             /\ records[i].seq = prev[i].seq
             /\ prev[i].seq # last.target => records[i] = prev[i]

\* C25 (as claimed): no step turns a paid record that stays in the
\* collection back to pending.
C25_PaidIsAbsorbing ==
    [][ \A i \in DOMAIN records : \A j \in DOMAIN records' :
          (records[i].seq = records'[j].seq /\ records[i].status = "paid")
             => records'[j].status = "paid" ]_vars

\* C26 (as claimed): every record has paidAmount <= amount.
C26_NoOverpayment ==
    \A i \in DOMAIN records : records[i].paidAmount <= records[i].amount

\* C27: over the summaries of a render, the recordCounts add up to the
\* number of records, the totalBorrowed to totalLent and the totalOwed to
\* totalPending.
C27_SummariesPartitionLedger ==
    last.op = "Render"
    => LET sums == view.borrowerSummaries
       IN  /\ SumOf(DOMAIN sums, [k \in DOMAIN sums |-> sums[k].recordCount]) = Len(records)
           /\ SumOf(DOMAIN sums, [k \in DOMAIN sums |-> sums[k].totalBorrowed]) = view.totalLent
           /\ SumOf(DOMAIN sums, [k \in DOMAIN sums |-> sums[k].totalOwed]) = view.totalPending

\* C27 witness: three records in two classes, one record pending with part of
\* it paid and one paid with part of it unpaid, in the same class.
C27_Witness ==
    /\ last.op = "Render"
    /\ Len(records) = 3
    /\ Len(view.borrowerSummaries) = 2
    /\ \E i, j \in DOMAIN records :
          /\ normalizeName(records[i].borrowerName) = normalizeName(records[j].borrowerName)
          /\ records[i].status = "pending" /\ records[i].paidAmount > 0
          /\ records[j].status = "paid" /\ records[j].paidAmount < records[j].amount

\* C28 (as claimed): from the load of a snapshot that holds records until
\* the render that shows them, the slot holds those records.
C28_SlotKeepsLoadedRecords ==
    (last.op \in {"Load", "MountSave"} /\ last.result = "ok" /\ records # <<>>)
    => /\ storage.kind = "array"
       /\ Len(storage.items) = Len(records)
       /\ \A i \in DOMAIN records : storage.items[i].id = records[i].id

Init ==
    /\ records = <<>>
    /\ selectedBorrower = <<>>
    /\ isPartialPaymentOpen = FALSE
    /\ selectedRecordForPayment = <<>>
    /\ now = 0
    /\ pc = "idle"
    /\ storage = JSONstringify(<<>>)
    /\ failedWrites = 0
    /\ rendered = <<>>
    /\ view = Aggregates(<<>>)
    /\ last = NoOp
    /\ prev = <<>>

Next ==
    \/ AddRecord
    \/ MarkFullyPaid
    \/ Delete
    \/ OpenPayment
    \/ DismissPayment
    \/ CancelPayment
    \/ ApplyPayment
    \/ SelectBorrower
    \/ CloseContact
    \/ Render
    \/ EditLentDate
    \/ Tick

Spec == Init /\ [][Next]_vars

\* ------------------------------------------------------------------ batched events
\* Two clicks handled before a render.
NextBatched ==
    \/ Next
    \/ BatchedMarkFullyPaid
    \/ BatchedDelete

SpecBatched == Init /\ [][NextBatched]_vars

\* ------------------------------------------------------------------ failing writes
NextQuota ==
    \/ Next
    \/ RenderWriteFails

SpecQuota == Init /\ [][NextQuota]_vars

\* ------------------------------------------------------------------ page loads
\* An item written before createdAt and paymentHistory were recorded.
LegacyItem ==
    [ id |-> -1, borrowerName |-> <<"A">>, amount |-> MaxAmount, reason |-> "lunch",
      lentDate |-> toISOString(0), status |-> "pending", notes |-> "", paidAmount |-> 0,
      seq |-> 1, marked |-> FALSE ]

\* What the slot can hold when the page is first loaded.
StartSlots ==
    { MissingSlot,
      [kind |-> "malformed", items |-> <<LegacyItem>>],
      [kind |-> "object", items |-> <<>>],
      [kind |-> "array", items |-> <<LegacyItem>>] }

InitStart ==
    /\ records = <<>>
    /\ selectedBorrower = <<>>
    /\ isPartialPaymentOpen = FALSE
    /\ selectedRecordForPayment = <<>>
    /\ now = 0
    /\ pc = "mounted"
    /\ storage \in StartSlots
    /\ failedWrites = 0
    /\ rendered = <<>>
    /\ view = Aggregates(<<>>)
    /\ last = NoOp
    /\ prev = <<>>

NextStart ==
    \/ Next
    \/ Reload
    \/ LoadEffect
    \/ MountSaveEffect

SpecStart == InitStart /\ [][NextStart]_vars

\* ------------------------------------------------------------------ aggregates of any collection
MaxAggRecords == 3

\* Names as handleAddRecord stores them: trimmed.
AggNames == { <<"A">>, <<"a">>, <<"a", " ", " ", "B">>, <<"a", " ", "b">>, <<"B">> }
AggDates == { 0, 1 }
AggPayment == [id |-> 0, amount |-> 1, date |-> 0, notes |-> "undefined"]
AggShapes ==
    { [amount |-> 2, paidAmount |-> 0, status |-> "pending", marked |-> FALSE,
       paymentHistory |-> <<>>],
      [amount |-> 2, paidAmount |-> 1, status |-> "pending", marked |-> FALSE,
       paymentHistory |-> <<AggPayment>>],
      [amount |-> 1, paidAmount |-> 1, status |-> "paid", marked |-> FALSE,
       paymentHistory |-> <<AggPayment>>],
      [amount |-> 2, paidAmount |-> 1, status |-> "paid", marked |-> TRUE,
       paymentHistory |-> <<AggPayment>>] }

AggRecord(name, shape, lentDate, seq) ==
    [ id |-> seq, borrowerName |-> name, amount |-> shape.amount, reason |-> "lunch",
      lentDate |-> lentDate, status |-> shape.status, notes |-> "",
      paidAmount |-> shape.paidAmount, paymentHistory |-> shape.paymentHistory,
      createdAt |-> lentDate, seq |-> seq, marked |-> shape.marked ]

\* The page after the mount on a slot that held a collection: setRecords has
\* been called with it and the render is pending.
InitAgg ==
    /\ \E n \in 0..MaxAggRecords :
         \E names \in [1..n -> AggNames], shapes \in [1..n -> AggShapes],
            dates \in [1..n -> AggDates] :
            records = [i \in 1..n |-> AggRecord(names[i], shapes[i], dates[i], n - i + 1)]
    /\ selectedBorrower = <<>>
    /\ isPartialPaymentOpen = FALSE
    /\ selectedRecordForPayment = <<>>
    /\ now = 0
    /\ pc = "dirty"
    /\ storage = JSONstringify(<<>>)
    /\ failedWrites = 0
    /\ rendered = <<>>
    /\ view = Aggregates(<<>>)
    /\ last = NoOp
    /\ prev = <<>>

NextAgg == Render

SpecAgg == InitAgg /\ [][NextAgg]_vars
====
